---- MODULE Spec2Model ----
(***************************************************************************)
(* A model of src/budget_tracker.py (class BudgetTracker): the year        *)
(* progress calculation, the per-category analysis of display_analysis,    *)
(* the ledger aggregation of process_file, the template store and the      *)
(* Streamlit script re-run that constructs a new BudgetTracker per user    *)
(* interaction.                                                            *)
(*                                                                         *)
(* Numbers.  The program computes in binary floating point.  The model     *)
(* computes exactly, with rationals [num, den] kept in lowest terms, on    *)
(* integer amounts; 1.1 and 0.9 are 11/10 and 9/10.                        *)
(***************************************************************************)
EXTENDS Integers, Sequences, FiniteSets, TLC

VARIABLES
    now,              \* (datetime.now() - start_of_year).total_seconds()
    leap,             \* whether now's year has a Feb 29
    year_progress,    \* the last value calculate_year_progress returned
    last_progress,    \* the value it returned the call before, same year
    raw_budget,       \* st.session_state.current_budgets.get(category, 0)
    raw_spent,        \* spending_data.get(category, 0)
    card,             \* what display_analysis has rendered for the category
    phase,            \* the position of the running handler
    templates,        \* self.templates
    file,             \* the content of budget_templates.json
    current_budgets,  \* st.session_state.current_budgets
    report,           \* the st.success / st.error calls of the last operation
    saved,            \* history: the mapping last saved under each name
    categories,       \* st.session_state.categories
    years,            \* st.session_state.years
    spending_data,    \* st.session_state.spending_data
    uploaded_file,    \* the ledger table handed to process_file
    widgets,          \* the number inputs on the page: default and value
    event             \* the user interaction that triggered the script run

vars == <<now, leap, year_progress, last_progress, raw_budget, raw_spent, card,
          phase, templates, file, current_budgets, report, saved, categories,
          years, spending_data, uploaded_file, widgets, event>>

clockVars == <<now, leap, year_progress, last_progress>>
analysisVars == <<raw_budget, raw_spent, card>>
storeVars == <<templates, file, current_budgets, report, saved>>
ledgerVars == <<categories, years, spending_data, uploaded_file, widgets>>

(***************************************************************************)
(* Exact arithmetic.                                                       *)
(***************************************************************************)
Abs(x) == IF x < 0 THEN -x ELSE x

Min(a, b) == IF a < b THEN a ELSE b

RECURSIVE GCD(_, _)
GCD(a, b) == IF b = 0 THEN a ELSE GCD(b, a % b)

\* The rational n/d (d > 0) in lowest terms.
Rat(n, d) ==
    LET g == GCD(Abs(n), d)
    IN  [num |-> n \div g, den |-> d \div g]

RatInt(n) == [num |-> n, den |-> 1]

RatMul(a, b) == Rat(a.num * b.num, a.den * b.den)

RatSub(a, b) == Rat(a.num * b.den - b.num * a.den, a.den * b.den)

\* a <= b for a, b >= 0, by continued fractions: no product is formed, so the
\* comparison stays within the integers the checker can hold.
RECURSIVE NonNegLe(_, _)
NonNegLe(a, b) ==
    LET qa == a.num \div a.den
        qb == b.num \div b.den
        ra == a.num % a.den
        rb == b.num % b.den
    IN  IF qa # qb THEN qa < qb
        ELSE IF ra = 0 THEN TRUE
        ELSE IF rb = 0 THEN FALSE
        ELSE NonNegLe([num |-> b.den, den |-> rb], [num |-> a.den, den |-> ra])

RatNeg(a) == [num |-> -a.num, den |-> a.den]

RatLe(a, b) ==
    IF a.num < 0
    THEN IF b.num < 0 THEN NonNegLe(RatNeg(b), RatNeg(a)) ELSE TRUE
    ELSE IF b.num < 0 THEN FALSE ELSE NonNegLe(a, b)

RatLt(a, b) == ~RatLe(b, a)

RatAbs(a) == [num |-> Abs(a.num), den |-> a.den]

EmptyMap == [c \in {} |-> 0]

\* An optional value: <<>> is "not there", <<x>> holds x.
None == <<>>

Some(x) == <<x>>

\* Python's a / b for b >= 0: the quotient, the divisor used, and
\* ZeroDivisionError when b = 0.
ZeroDivisionError == "ZeroDivisionError"

TrueDiv(a, b) ==
    IF b.num = 0
    THEN [val |-> RatInt(0), divs |-> <<b>>, err |-> ZeroDivisionError]
    ELSE [val |-> Rat(a.num * b.den, a.den * b.num), divs |-> <<b>>, err |-> ""]

(***************************************************************************)
(* The clock and calculate_year_progress.                                  *)
(***************************************************************************)
SecondsPerDay == 24 * 60 * 60

\* 365.25 * 24 * 60 * 60
YearLengthSeconds == 36525 * 24 * 36

DaysInYear(l) == IF l THEN 366 ELSE 365

\* Dec 31 23:59:59 of the year, in seconds since Jan 1 00:00:00.
LastSecond(l) == DaysInYear(l) * SecondsPerDay - 1

DaysInMonth(m, l) ==
    CASE m = 2 -> IF l THEN 29 ELSE 28
      [] m \in {4, 6, 9, 11} -> 30
      [] OTHER -> 31

RECURSIVE DaysBefore(_, _)
DaysBefore(m, l) == IF m = 1 THEN 0 ELSE DaysBefore(m - 1, l) + DaysInMonth(m - 1, l)

\* datetime.now().month
MonthOf(t, l) ==
    LET d == t \div SecondsPerDay
    IN  CHOOSE m \in 1..12 : DaysBefore(m, l) <= d /\ d < DaysBefore(m, l) + DaysInMonth(m, l)

\* calculate_year_progress with the clamp of line 122 left out
calculate_year_progress_unclamped(t) == Rat(t, YearLengthSeconds)

calculate_year_progress(t) ==
    LET progress == Rat(t, YearLengthSeconds)
    IN  IF RatLt(progress, RatInt(1)) THEN progress ELSE RatInt(1)

(***************************************************************************)
(* display_analysis, for one category (the body of the loop of line 203).  *)
(* The three columns are the containers over_budget, on_track and          *)
(* under_spending; a category that is not active is skipped (continue).    *)
(* Labels: "overrun" is the metric of lines 245 and 249, "positive_gap"    *)
(* that of line 247; the notes "over_budget", "within_budget" and          *)
(* "no_budget" are the yearly projection messages of lines 257-261.        *)
(***************************************************************************)
is_category_active(budget, spent) == budget > 0 \/ spent > 0

\* SpentPercent dividing before it looks at the budget
SpentPercentUnguarded(budget, spent) ==
    LET q == TrueDiv(RatInt(spent), RatInt(budget))
    IN  [q EXCEPT !.val = RatMul(q.val, RatInt(100))]

\* lines 212-215
SpentPercent(budget, spent) ==
    IF budget > 0
    THEN LET q == TrueDiv(RatInt(spent), RatInt(budget))
         IN  [q EXCEPT !.val = RatMul(q.val, RatInt(100))]
    ELSE [val |-> IF spent > 0 THEN RatInt(100) ELSE RatInt(0), divs |-> <<>>, err |-> ""]

\* PickContainer with the upper band edge counted as over budget
PickContainerInclusive(budget, spent, expected_spend) ==
    IF budget = 0
    THEN IF spent > 0 THEN "over_budget" ELSE "on_track"
    ELSE IF RatLe(RatMul(expected_spend, Rat(11, 10)), RatInt(spent)) THEN "over_budget"
    ELSE IF RatLt(RatInt(spent), RatMul(expected_spend, Rat(9, 10))) THEN "under_spending"
    ELSE "on_track"

\* lines 219-230
PickContainer(budget, spent, expected_spend) ==
    IF budget = 0
    THEN IF spent > 0 THEN "over_budget" ELSE "on_track"
    ELSE IF RatLt(RatMul(expected_spend, Rat(11, 10)), RatInt(spent)) THEN "over_budget"
    ELSE IF RatLt(RatInt(spent), RatMul(expected_spend, Rat(9, 10))) THEN "under_spending"
    ELSE "on_track"

\* lines 175-181
get_progress_color(spent_percent, expected_percent) ==
    IF RatLt(RatMul(expected_percent, Rat(11, 10)), spent_percent) THEN "red"
    ELSE IF RatLt(spent_percent, RatMul(expected_percent, Rat(9, 10))) THEN "yellow"
    ELSE "green"

\* lines 162-173
create_progress_bar(spent_percent, year_progress_percent) ==
    [width  |-> IF RatLt(spent_percent, RatInt(100)) THEN spent_percent ELSE RatInt(100),
     color  |-> get_progress_color(spent_percent, year_progress_percent),
     marker |-> year_progress_percent]

NoCard ==
    [state |-> "none", budget |-> 0, spent |-> 0, expected_spend |-> RatInt(0),
     spent_percent |-> RatInt(0), container |-> "", bar |-> None, variance |-> None,
     projection |-> None, divisors |-> <<>>, error |-> ""]

\* lines 204-230: the figures and the column of one category
Classify(rb, rs, yp) ==
    LET budget == Abs(rb)
        spent == Abs(rs)
        expected_spend == RatMul(RatInt(budget), yp)
        pct == SpentPercent(budget, spent)
    IN  IF ~is_category_active(budget, spent)
        THEN [NoCard EXCEPT !.state = "skipped"]
        ELSE IF pct.err # ""
        THEN [NoCard EXCEPT !.state = "raised", !.budget = budget, !.spent = spent,
                            !.divisors = pct.divs, !.error = pct.err]
        ELSE [NoCard EXCEPT !.state = "classified", !.budget = budget, !.spent = spent,
                            !.expected_spend = expected_spend,
                            !.spent_percent = pct.val,
                            !.container = PickContainer(budget, spent, expected_spend),
                            !.divisors = pct.divs]

\* lines 241-249: the variance metric, if one is shown
Variance(budget, spent, expected_spend) ==
    IF budget > 0
    THEN LET remainder == RatSub(expected_spend, RatInt(spent))
         IN  IF remainder.num = 0 THEN None
             ELSE IF remainder.num < 0 THEN Some([label |-> "overrun", amount |-> RatAbs(remainder)])
             ELSE Some([label |-> "positive_gap", amount |-> remainder])
    ELSE IF spent > 0 THEN Some([label |-> "overrun", amount |-> RatInt(spent)])
    ELSE None

\* Projection computed from the first month on, averaged over the months left
ProjectionFromJanuary(budget, spent, current_month) ==
    IF current_month >= 1
    THEN LET q == TrueDiv(RatInt(spent), RatInt(13 - current_month))
             yearly_projection == RatMul(q.val, RatInt(12))
         IN  Some([monthly_avg |-> q.val,
                   yearly_projection |-> yearly_projection,
                   divisor |-> current_month,
                   note |-> IF budget > 0
                            THEN IF RatLt(RatInt(budget), yearly_projection)
                                 THEN "over_budget" ELSE "within_budget"
                            ELSE "no_budget"])
    ELSE None

\* lines 251-261: the monthly average and the yearly projection, if computed
Projection(budget, spent, current_month) ==
    IF current_month > 1
    THEN LET q == TrueDiv(RatInt(spent), RatInt(current_month))
             yearly_projection == RatMul(q.val, RatInt(12))
         IN  Some([monthly_avg |-> q.val,
                   yearly_projection |-> yearly_projection,
                   divisor |-> current_month,
                   note |-> IF budget > 0
                            THEN IF RatLt(RatInt(budget), yearly_projection)
                                 THEN "over_budget" ELSE "within_budget"
                            ELSE "no_budget"])
    ELSE None

\* lines 232-261: the expander of one classified category
RenderCard(c, yp, current_month) ==
    [c EXCEPT !.state = "rendered",
              !.bar = Some(create_progress_bar(c.spent_percent, RatMul(yp, RatInt(100)))),
              !.variance = Variance(c.budget, c.spent, c.expected_spend),
              !.projection = Projection(c.budget, c.spent, current_month),
              !.divisors = IF current_month > 1
                           THEN Append(c.divisors, RatInt(current_month))
                           ELSE c.divisors]

(***************************************************************************)
(* The session and the store.  An operation is a function on a world W:    *)
(* the session state (current_budgets, categories, years, spending_data),  *)
(* the BudgetTracker object (templates), the store file, and report, the   *)
(* messages of the script run so far: st.success and st.error calls, and   *)
(* as the last entry an exception that nothing caught.  A dict is a        *)
(* function; its iteration order is that of NameOrder or CategoryOrder.    *)
(***************************************************************************)
Msg(kind, what) == [kind |-> kind, what |-> what]

Raised(W) == \E i \in 1..Len(W.report) : W.report[i].kind = "raised"

Raise(W, what) == [W EXCEPT !.report = Append(@, Msg("raised", what))]

Success(W, what) == [W EXCEPT !.report = Append(@, Msg("success", what))]

\* dict.get(key, 0)
Get(m, key) == IF key \in DOMAIN m THEN m[key] ELSE 0

\* d[key] = value
Put(m, key, value) == [k \in DOMAIN m \cup {key} |-> IF k = key THEN value ELSE m[k]]

\* del d[key]
Del(m, key) == [k \in DOMAIN m \ {key} |-> m[k]]

CategoryOrder == <<"Food", "Rent">>

NameOrder == <<"Default", "Plan">>

Range(q) == {q[i] : i \in 1..Len(q)}

\* json.dump of a dict: its items, in order, as name/value pairs
RECURSIVE EncodeItems(_, _, _)
EncodeItems(m, order, depth) ==
    IF order = <<>> THEN <<>>
    ELSE IF order[1] \in DOMAIN m
    THEN <<[key |-> order[1],
            value |-> IF depth = 0 THEN <<m[order[1]]>>
                      ELSE EncodeItems(m[order[1]], CategoryOrder, 0)]>>
         \o EncodeItems(m, Tail(order), depth)
    ELSE EncodeItems(m, Tail(order), depth)

Encode(t) == EncodeItems(t, NameOrder, 1)

\* json.load of what json.dump wrote
DecodeItems(items, depth) ==
    [k \in {items[i].key : i \in 1..Len(items)} |->
        LET v == items[CHOOSE i \in 1..Len(items) : items[i].key = k].value
        IN  IF depth = 0 THEN v[1]
            ELSE [c \in {v[i].key : i \in 1..Len(v)} |->
                     v[CHOOSE i \in 1..Len(v) : v[i].key = c].value[1]]]

Decode(entries) == DecodeItems(entries, 1)

\* lines 68-70.  io = "fail": the file is opened for writing, which empties
\* it, and the write then raises (or the process dies); what is left is no
\* JSON document.
save_templates_to_file(W, io) ==
    IF io = "fail"
    THEN Raise([W EXCEPT !.file = [exists |-> TRUE, valid |-> FALSE, entries |-> <<>>]],
               "OSError")
    ELSE [W EXCEPT !.file = [exists |-> TRUE, valid |-> TRUE, entries |-> Encode(W.templates)]]

\* lines 60-66
load_templates_from_file(W, io) ==
    IF ~W.file.exists
    THEN save_templates_to_file([W EXCEPT !.templates = EmptyMap], io)
    ELSE IF W.file.valid
    THEN [W EXCEPT !.templates = Decode(W.file.entries)]
    ELSE Raise(W, "JSONDecodeError")

\* save_template that stores the template and never writes the file
save_template_unwritten(W, name, io) ==
    Success([W EXCEPT !.templates = Put(@, name, W.current_budgets)], "saved")

\* lines 72-75
save_template(W, name, io) ==
    LET W1 == [W EXCEPT !.templates = Put(@, name, W.current_budgets)]
        W2 == save_templates_to_file(W1, io)
    IN  IF Raised(W2) THEN W2 ELSE Success(W2, "saved")

\* lines 77-80
load_template(W, name) ==
    IF name \in DOMAIN W.templates
    THEN Success([W EXCEPT !.current_budgets = W.templates[name]], "loaded")
    ELSE W

\* delete_template without the membership test of line 83
delete_template_unguarded(W, name, io) ==
    IF name \in DOMAIN W.templates
    THEN LET W2 == save_templates_to_file([W EXCEPT !.templates = Del(@, name)], io)
         IN  IF Raised(W2) THEN W2 ELSE Success(W2, "deleted")
    ELSE Raise(W, "KeyError")

\* lines 82-86
delete_template(W, name, io) ==
    IF name \in DOMAIN W.templates
    THEN LET W2 == save_templates_to_file([W EXCEPT !.templates = Del(@, name)], io)
         IN  IF Raised(W2) THEN W2 ELSE Success(W2, "deleted")
    ELSE W

\* name.lower()
Lower(name) ==
    CASE name = "Default" -> "default"
      [] name = "Plan" -> "plan"
      [] OTHER -> name

\* lines 53-54: the first template whose name is "default" in any case
DefaultTemplates(W) ==
    SelectSeq(NameOrder, LAMBDA n : n \in DOMAIN W.templates /\ Lower(n) = "default")

\* lines 32-56: __init__ up to the call of run.  The session keys exist
\* already (a new session starts with their initial values).
Construct(W, io) ==
    LET W1 == load_templates_from_file([W EXCEPT !.report = <<>>], io)
    IN  IF Raised(W1) THEN W1
        ELSE IF DefaultTemplates(W1) # <<>>
        THEN load_template(W1, DefaultTemplates(W1)[1])
        ELSE W1

(***************************************************************************)
(* process_file.  The ledger table is what pd.read_csv returns: the        *)
(* columns it found ("month" is the posting-month column, "category" and   *)
(* "amount" the two others) and its rows.  A month is a string, a sequence *)
(* of characters, or NaNMonth for an empty cell; a category is a string,   *)
(* or NaN for an empty cell; an amount is a number, nan for an empty cell, *)
(* or text that is no number.  The excluded categories stand for the four  *)
(* names of lines 46-49.                                                   *)
(***************************************************************************)
NaN == "NaN"

NaNMonth == <<NaN>>

excluded_categories ==
    {"non_cashflow_income", "non_cashflow_expenses", "fixed_income", "variable_income"}

\* df['month'].str[:4]
YearOf(month) ==
    IF month = NaNMonth THEN NaNMonth ELSE SubSeq(month, 1, Min(4, Len(month)))

Alphabet == <<"-", "0", "1", "2", "3", "4", "5", "6", "7", "8", "9">>

CharRank(ch) == CHOOSE i \in 1..Len(Alphabet) : Alphabet[i] = ch

\* Python's order of str
RECURSIVE StrLe(_, _)
StrLe(x, y) ==
    IF x = <<>> THEN TRUE
    ELSE IF y = <<>> THEN FALSE
    ELSE IF x[1] = y[1] THEN StrLe(Tail(x), Tail(y))
    ELSE CharRank(x[1]) < CharRank(y[1])

\* sorted() of a set of strings
RECURSIVE SortedStrings(_)
SortedStrings(S) ==
    IF S = {} THEN <<>>
    ELSE LET first == CHOOSE x \in S : \A y \in S : StrLe(x, y)
         IN  <<first>> \o SortedStrings(S \ {first})

\* sorted() of a set of category names
SortedCategories(S) ==
    IF S = {NaN} THEN <<NaN>> ELSE SelectSeq(CategoryOrder, LAMBDA c : c \in S)

\* line 104.  bool(nan) is True, and nan is in no set of strings.
Counted(row) == row.category # "" /\ row.category \notin excluded_categories

\* line 106
AmountOf(row) == IF row.amount.kind = "num" THEN row.amount.val ELSE 0

\* lines 98-107 for one year: the totals, row by row
RECURSIVE YearTotals(_, _, _)
YearTotals(rows, year, acc) ==
    IF rows = <<>> THEN acc
    ELSE LET row == rows[1]
         IN  IF YearOf(row.month) = year /\ Counted(row)
             THEN YearTotals(Tail(rows), year,
                             Put(acc, row.category, Get(acc, row.category) + AmountOf(row)))
             ELSE YearTotals(Tail(rows), year, acc)

\* The exception lines 91-92 raise, "" if none.
YearsRaise(table) ==
    LET months == {table.rows[i].month : i \in 1..Len(table.rows)}
    IN  IF "month" \notin table.columns THEN "KeyError"
        ELSE IF months # {} /\ months = {NaNMonth} THEN "AttributeError"
        ELSE IF NaNMonth \in months THEN "TypeError"
        ELSE ""

\* The exception the loop of lines 98-107 or line 109 raises, "" if none.
LoopRaise(table) ==
    LET rows == table.rows
        counted == {i \in 1..Len(rows) : Counted(rows[i])}
        cats == {rows[i].category : i \in counted}
    IN  IF rows # <<>> /\ "category" \notin table.columns THEN "KeyError"
        ELSE IF counted # {} /\ "amount" \notin table.columns THEN "KeyError"
        ELSE IF \E i \in counted : rows[i].amount.kind = "text" THEN "ValueError"
        ELSE IF NaN \in cats /\ cats # {NaN} THEN "TypeError"
        ELSE ""

ProcessingError(W, what) == [W EXCEPT !.report = Append(@, Msg("error", what))]

\* lines 88-116.  It returns True exactly when it reports no error.
process_file(W, table) ==
    LET rows == table.rows
        yearset == {YearOf(rows[i].month) : i \in 1..Len(rows)}
        cats == {rows[i].category : i \in {j \in 1..Len(rows) : Counted(rows[j])}}
    IN  IF YearsRaise(table) # "" THEN ProcessingError(W, YearsRaise(table))
        ELSE LET W1 == [W EXCEPT !.years = SortedStrings(yearset)]
             IN  IF LoopRaise(table) # "" THEN ProcessingError(W1, LoopRaise(table))
                 ELSE [W1 EXCEPT !.categories = SortedCategories(cats),
                                 !.spending_data =
                                     [y \in yearset |-> YearTotals(rows, y, EmptyMap)]]

Returned(W) == \A i \in 1..Len(W.report) : W.report[i].kind # "error"

(***************************************************************************)
(* The script run: a user interaction makes Streamlit run the script,      *)
(* which constructs a BudgetTracker, whose __init__ ends in run().  ev is  *)
(* the interaction: "none" (a re-run that clicks and edits nothing),       *)
(* "upload", the buttons "save", "load" and "delete", or "edit" of one     *)
(* category's number input.                                                *)
(*                                                                         *)
(* st.number_input(label, value=d, key=k) is the same widget as in the run *)
(* before when its arguments are the same; it then returns the value the   *)
(* page holds for it, which is the user's edit if there is one.  With      *)
(* another d it is a new widget, and returns d.  W.widgets holds, for each *)
(* number input of the page, the d it was made with and its value.         *)
(***************************************************************************)
\* st.number_input(category, value=d, key=...) of line 150
number_input(W, ev, c, d) ==
    IF c \in DOMAIN W.widgets /\ W.widgets[c].default = d
    THEN IF ev.type = "edit" /\ ev.category = c THEN ev.value ELSE W.widgets[c].state
    ELSE d

\* A run that raised, or that showed no category, leaves no number input.
NoWidgets(W) == [W EXCEPT !.widgets = EmptyMap]

\* lines 149-154
BudgetInputs_loop(W, ev) ==
    [W EXCEPT !.current_budgets =
        [c \in DOMAIN W.current_budgets \cup Range(W.categories) |->
            IF c \in Range(W.categories)
            THEN number_input(W, ev, c, Get(W.current_budgets, c))
            ELSE W.current_budgets[c]],
              !.widgets =
        [c \in Range(W.categories) |->
            [default |-> Get(W.current_budgets, c),
             state |-> number_input(W, ev, c, Get(W.current_budgets, c))]]]

\* lines 124-154
display_budget_setup(W, ev, io) ==
    LET W1 == IF ev.type = "save" /\ ev.name # ""
              THEN save_template(W, ev.name, io) ELSE W
        W2 == IF Raised(W1) \/ W1.templates = EmptyMap THEN W1
              ELSE IF ev.type = "load" THEN load_template(W1, ev.name)
              ELSE IF ev.type = "delete" THEN delete_template(W1, ev.name, io)
              ELSE W1
    IN  IF Raised(W2) THEN NoWidgets(W2) ELSE BudgetInputs_loop(W2, ev)

\* lines 263-284; display_analysis renders and changes no state
run(W, ev, io, table) ==
    LET W1 == IF W.categories = <<>> /\ ev.type = "upload"
              THEN LET P == process_file(W, table)
                   IN  IF Returned(P) THEN Success(P, "processed") ELSE P
              ELSE W
    IN  IF W1.categories # <<>> THEN display_budget_setup(W1, ev, io) ELSE NoWidgets(W1)

\* BudgetTracker(): lines 8-58
ScriptRun(W, ev, io, table) ==
    LET W1 == Construct(W, io)
    IN  IF Raised(W1) THEN NoWidgets(W1) ELSE run(W1, ev, io, table)

(***************************************************************************)
(* Values of the variables a specification does not use.                   *)
(***************************************************************************)
NoFile == [exists |-> FALSE, valid |-> FALSE, entries |-> <<>>]

NoEvent == [type |-> "none", name |-> "", category |-> "", value |-> 0, io |-> "ok"]

EmptyLedger == [columns |-> {"month", "category", "amount"}, rows |-> <<>>]

TemplateNames == {"Default", "Plan"}

ClockIdle ==
    /\ now = 0
    /\ leap = FALSE
    /\ year_progress = RatInt(0)
    /\ last_progress = RatInt(0)

AnalysisIdle ==
    /\ raw_budget = 0
    /\ raw_spent = 0
    /\ card = NoCard

StoreIdle ==
    /\ templates = EmptyMap
    /\ file = NoFile
    /\ current_budgets = EmptyMap
    /\ report = <<>>
    /\ saved = [n \in TemplateNames |-> None]

LedgerIdle ==
    /\ categories = <<>>
    /\ years = <<>>
    /\ spending_data = EmptyMap
    /\ uploaded_file = EmptyLedger
    /\ widgets = EmptyMap

(***************************************************************************)
(* SpecProgress: the clock runs through the year and                       *)
(* calculate_year_progress is called at each instant it reaches.           *)
(***************************************************************************)
TickSeconds == 21600

InitProgress ==
    /\ now = 0
    /\ leap \in BOOLEAN
    /\ year_progress = calculate_year_progress(0)
    /\ last_progress = calculate_year_progress(0)
    /\ phase = "idle"
    /\ event = NoEvent
    /\ AnalysisIdle /\ StoreIdle /\ LedgerIdle

CallAt(t) ==
    /\ now' = t
    /\ year_progress' = calculate_year_progress(t)
    /\ last_progress' = year_progress
    /\ UNCHANGED <<leap, phase, event, analysisVars, storeVars, ledgerVars>>

Tick ==
    /\ now + TickSeconds <= LastSecond(leap)
    /\ CallAt(now + TickSeconds)

LastSecondOfYear ==
    /\ now < LastSecond(leap)
    /\ CallAt(LastSecond(leap))

NewYear ==
    /\ now = LastSecond(leap)
    /\ now' = 0
    /\ leap' \in (IF leap THEN {FALSE} ELSE BOOLEAN)
    /\ year_progress' = calculate_year_progress(0)
    /\ last_progress' = calculate_year_progress(0)
    /\ UNCHANGED <<phase, event, analysisVars, storeVars, ledgerVars>>

NextProgress == Tick \/ LastSecondOfYear \/ NewYear

SpecProgress == InitProgress /\ [][NextProgress]_vars

(***************************************************************************)
(* SpecAnalysis: display_analysis on one category, at an instant of the    *)
(* year, for a budget and a ledger total drawn from bounded sets.          *)
(***************************************************************************)
MaxBudget == 12

MaxSpent == 14

BudgetInputs == (-MaxBudget..MaxBudget) \cup {100}

SpentInputs == (-MaxSpent..MaxSpent) \cup {-89, -90, -100, -110, -111, -1200}

\* Twelfths of the 365.25-day year; the last one exists in a leap year only.
AnalysisInstants(l) ==
    {k * (YearLengthSeconds \div 12) : k \in 0..12} \cap (0..LastSecond(l))

InitAnalysis ==
    /\ leap \in BOOLEAN
    /\ now \in AnalysisInstants(leap)
    /\ year_progress = RatInt(0)
    /\ last_progress = RatInt(0)
    /\ raw_budget \in BudgetInputs
    /\ raw_spent \in SpentInputs
    /\ card = NoCard
    /\ phase = "start"
    /\ event = NoEvent
    /\ StoreIdle /\ LedgerIdle

\* lines 159 and 204-230
ClassifyCategory ==
    /\ phase = "start"
    /\ year_progress' = calculate_year_progress(now)
    /\ last_progress' = year_progress
    /\ card' = Classify(raw_budget, raw_spent, calculate_year_progress(now))
    /\ phase' = "classified"
    /\ UNCHANGED <<now, leap, raw_budget, raw_spent, event, storeVars, ledgerVars>>

\* lines 232-261
RenderCategory ==
    /\ phase = "classified"
    /\ card.state = "classified"
    /\ card' = RenderCard(card, year_progress, MonthOf(now, leap))
    /\ phase' = "rendered"
    /\ UNCHANGED <<clockVars, raw_budget, raw_spent, event, storeVars, ledgerVars>>

NextAnalysis == ClassifyCategory \/ RenderCategory

SpecAnalysis == InitAnalysis /\ [][NextAnalysis]_vars

(***************************************************************************)
(* The world of the variables, and its commit.                             *)
(***************************************************************************)
World ==
    [templates |-> templates, file |-> file, current_budgets |-> current_budgets,
     categories |-> categories, years |-> years, spending_data |-> spending_data,
     report |-> report, widgets |-> widgets]

Commit(W) ==
    /\ templates' = W.templates
    /\ file' = W.file
    /\ current_budgets' = W.current_budgets
    /\ categories' = W.categories
    /\ years' = W.years
    /\ spending_data' = W.spending_data
    /\ report' = W.report
    /\ widgets' = W.widgets

Ev(type) == [NoEvent EXCEPT !.type = type]

\* What the write of a script run can come to: it is only a question when
\* the run writes at all.
IOOutcomes == {"ok", "fail"}

\* The last script run got to the end of run(): its widgets are on the page.
Rendered == phase = "idle" /\ ~Raised(World)

\* A browser reload: a new session, st.session_state as lines 32-41 make it.
NewSession ==
    /\ phase = "idle"
    /\ phase' = "fresh"
    /\ event' = Ev("new_session")
    /\ current_budgets' = EmptyMap
    /\ categories' = <<>>
    /\ years' = <<>>
    /\ spending_data' = EmptyMap
    /\ report' = <<>>
    /\ widgets' = EmptyMap
    /\ UNCHANGED <<templates, file, saved, uploaded_file, clockVars, analysisVars>>

(***************************************************************************)
(* SpecLedger: a session whose user uploads a ledger table drawn from a    *)
(* bounded set, and, while the uploader is still shown, another one.       *)
(***************************************************************************)
MaxRows == 2

Month2023 == <<"2", "0", "2", "3", "-", "1", "1">>

Month2024 == <<"2", "0", "2", "4", "-", "0", "2">>

Number(n) == [kind |-> "num", val |-> n]

MissingAmount == [kind |-> "nan", val |-> 0]

TextAmount == [kind |-> "text", val |-> 0]

AllColumns == {"month", "category", "amount"}

RowValues ==
    [month : {Month2023, Month2024, NaNMonth},
     category : {"Food", "Rent", "fixed_income", NaN},
     amount : {Number(-3), Number(2), MissingAmount, TextAmount}]

Ledgers ==
    [columns : {AllColumns} \cup {AllColumns \ {c} : c \in AllColumns},
     rows : UNION {[1..n -> RowValues] : n \in 0..MaxRows}]

Row(m, c, a) == [month |-> m, category |-> c, amount |-> a]

Table(rows) == [columns |-> AllColumns, rows |-> rows]

RetryLedgers ==
    {Table(<<Row(Month2024, "Food", Number(2))>>),
     Table(<<Row(Month2023, "fixed_income", Number(2))>>),
     Table(<<Row(Month2024, "Rent", TextAmount)>>)}

InitLedger ==
    /\ uploaded_file \in Ledgers
    /\ categories = <<>>
    /\ years = <<>>
    /\ spending_data = EmptyMap
    /\ widgets = EmptyMap
    /\ phase = "fresh"
    /\ event = NoEvent
    /\ ClockIdle /\ AnalysisIdle /\ StoreIdle

\* The session's first script run: nothing is uploaded yet.
FirstRun ==
    /\ phase = "fresh"
    /\ \E io \in IOOutcomes : Commit(ScriptRun(World, Ev("none"), io, uploaded_file))
    /\ phase' = "idle"
    /\ event' = Ev("none")
    /\ UNCHANGED <<uploaded_file, saved, clockVars, analysisVars>>

Upload ==
    /\ Rendered
    /\ categories = <<>>
    /\ event.type = "none"
    /\ Commit(ScriptRun(World, Ev("upload"), "ok", uploaded_file))
    /\ event' = Ev("upload")
    /\ UNCHANGED <<phase, uploaded_file, saved, clockVars, analysisVars>>

UploadAgain ==
    /\ Rendered
    /\ categories = <<>>
    /\ event.type = "upload"
    /\ \E table \in RetryLedgers :
          /\ uploaded_file' = table
          /\ Commit(ScriptRun(World, Ev("upload"), "ok", table))
    /\ event' = Ev("upload")
    /\ UNCHANGED <<phase, saved, clockVars, analysisVars>>

NextLedger == FirstRun \/ Upload \/ UploadAgain

SpecLedger == InitLedger /\ [][NextLedger]_vars

(***************************************************************************)
(* SpecSession: the script runs of a browser session, one per user         *)
(* interaction with the widgets the run before put on the page.            *)
(***************************************************************************)
MaxAmount == 1

CategoryNames == Range(CategoryOrder)

SessionLedgers ==
    {Table(<<Row(Month2024, "Food", Number(-3))>>),
     Table(<<Row(Month2023, "Rent", Number(-3)), Row(Month2024, "Food", Number(2))>>)}

InitSession ==
    /\ phase = "fresh"
    /\ event = NoEvent
    /\ ClockIdle /\ AnalysisIdle /\ StoreIdle /\ LedgerIdle

Interaction(ev, io, table) ==
    /\ Commit(ScriptRun(World, ev, io, table))
    /\ event' = [ev EXCEPT !.io = io]
    /\ phase' = "idle"
    /\ uploaded_file' = table
    /\ UNCHANGED <<saved, clockVars, analysisVars>>

\* A run that clicks and edits nothing: the first of a session, a year chosen.
PlainRerun ==
    \E io \in (IF file.exists THEN {"ok"} ELSE IOOutcomes) :
        Interaction(Ev("none"), io, uploaded_file)

UploadFile ==
    /\ Rendered
    /\ categories = <<>>
    /\ \E table \in SessionLedgers : Interaction(Ev("upload"), "ok", table)

ClickSave ==
    /\ Rendered
    /\ categories # <<>>
    /\ \E name \in TemplateNames \cup {""}, io \in IOOutcomes :
          /\ (name = "" => io = "ok")
          /\ Interaction([Ev("save") EXCEPT !.name = name], io, uploaded_file)

ClickLoad ==
    /\ Rendered
    /\ categories # <<>>
    /\ \E name \in DOMAIN templates :
          Interaction([Ev("load") EXCEPT !.name = name], "ok", uploaded_file)

ClickDelete ==
    /\ Rendered
    /\ categories # <<>>
    /\ \E name \in DOMAIN templates, io \in IOOutcomes :
          Interaction([Ev("delete") EXCEPT !.name = name], io, uploaded_file)

EditBudget ==
    /\ Rendered
    /\ \E c \in DOMAIN widgets :
       \E v \in (0..MaxAmount) \ {widgets[c].state} :
          Interaction([Ev("edit") EXCEPT !.category = c, !.value = v], "ok", uploaded_file)

NextSession ==
    \/ PlainRerun
    \/ UploadFile
    \/ ClickSave
    \/ ClickLoad
    \/ ClickDelete
    \/ EditBudget
    \/ NewSession

SpecSession == InitSession /\ [][NextSession]_vars

(***************************************************************************)
(* SpecStore: the template store by its methods, called with any name on   *)
(* a constructed BudgetTracker, between edits of the budget mapping and    *)
(* new constructions (a re-run, a restart of the process).  saved records  *)
(* what line 73 last stored under each name, None once line 84 removed it. *)
(***************************************************************************)
InitStore ==
    /\ phase = "none"
    /\ event = NoEvent
    /\ ClockIdle /\ AnalysisIdle /\ StoreIdle /\ LedgerIdle

Call(W, ev) ==
    /\ Commit(W)
    /\ event' = ev
    /\ UNCHANGED <<uploaded_file, clockVars, analysisVars>>

Fresh == [World EXCEPT !.report = <<>>]

NewTracker ==
    \E io \in (IF file.exists THEN {"ok"} ELSE IOOutcomes) :
        /\ Call(Construct(World, io), [Ev("construct") EXCEPT !.io = io])
        /\ phase' = IF Raised(Construct(World, io)) THEN "failed" ELSE "constructed"
        /\ UNCHANGED saved

CallSave ==
    /\ phase = "constructed"
    /\ \E name \in TemplateNames, io \in IOOutcomes :
          /\ Call(save_template(Fresh, name, io), [Ev("save") EXCEPT !.name = name, !.io = io])
          /\ saved' = [saved EXCEPT ![name] = Some(current_budgets)]
    /\ UNCHANGED phase

CallLoad ==
    /\ phase = "constructed"
    /\ \E name \in TemplateNames :
          Call(load_template(Fresh, name), [Ev("load") EXCEPT !.name = name])
    /\ UNCHANGED <<phase, saved>>

CallDelete ==
    /\ phase = "constructed"
    /\ \E name \in TemplateNames, io \in IOOutcomes :
          /\ (name \notin DOMAIN templates => io = "ok")
          /\ Call(delete_template(Fresh, name, io),
                  [Ev("delete") EXCEPT !.name = name, !.io = io])
          /\ saved' = IF name \in DOMAIN templates
                      THEN [saved EXCEPT ![name] = None] ELSE saved
    /\ UNCHANGED phase

\* line 150, for one category the user edits
SetBudget ==
    /\ phase = "constructed"
    /\ \E c \in CategoryNames, v \in 0..MaxAmount :
          Call([Fresh EXCEPT !.current_budgets = Put(@, c, v)],
               [Ev("edit") EXCEPT !.category = c, !.value = v])
    /\ UNCHANGED <<phase, saved>>

NextStore == NewTracker \/ CallSave \/ CallLoad \/ CallDelete \/ SetBudget

SpecStore == InitStore /\ [][NextStore]_vars

(***************************************************************************)
(* Claims about calculate_year_progress (SpecProgress).                    *)
(***************************************************************************)
One == RatInt(1)

\* C7, as stated: in every year, leap or not, the progress is 0 at
\* Jan 1 00:00:00, never decreases within the year, never exceeds 1.0 and is
\* still strictly below 1.0 at Dec 31 23:59:59.
C7_AsStated ==
    /\ (now = 0 => year_progress = RatInt(0))
    /\ RatLe(last_progress, year_progress)
    /\ RatLe(year_progress, One)
    /\ (now = LastSecond(leap) => RatLt(year_progress, One))

\* C7, amended: the progress is 0 at Jan 1 00:00:00, never decreases within
\* the year and never exceeds 1.0; in a year of 365 days it stays strictly
\* below 1.0 through Dec 31 23:59:59, and in a leap year it is exactly 1.0
\* from 365.25 days after Jan 1 (Dec 31 06:00:00) on, Dec 31 23:59:59 included.
C7_ProgressAmended ==
    /\ (now = 0 => year_progress = RatInt(0))
    /\ RatLe(last_progress, year_progress)
    /\ RatLe(year_progress, One)
    /\ (~leap => RatLt(year_progress, One))
    /\ (leap => (year_progress = One <=> now >= YearLengthSeconds))

\* C7's case: Dec 31 23:59:59 of a leap year, where the clamp has acted.
C7_Witness ==
    /\ leap
    /\ now = LastSecond(leap)
    /\ year_progress = One
    /\ RatLt(last_progress, One)

(***************************************************************************)
(* Claims about display_analysis (SpecAnalysis).  The claims' statuses are *)
(* read off what is rendered: OverBudget, OnTrack and UnderSpending are    *)
(* the three columns; NoActivity is a category that is skipped;            *)
(* UnbudgetedSpending is a card with budget 0 in the over-budget column,   *)
(* whose overrun is the whole spend and whose projection, when there is    *)
(* one, carries the note "no_budget".                                      *)
(***************************************************************************)
Shown == card.state \in {"classified", "rendered"}

BandStatus(budget, spent, p) ==
    IF spent * 10 * p.den > budget * p.num * 11 THEN "over_budget"
    ELSE IF spent * 10 * p.den < budget * p.num * 9 THEN "under_spending"
    ELSE "on_track"

\* C1: with budget > 0 and expected = budget * p, the status is OverBudget
\* exactly when spent > expected * 1.1, UnderSpending exactly when
\* spent < expected * 0.9 and OnTrack otherwise, the band edges included in
\* OnTrack: classify(100, 90, 1.0), classify(100, 110, 1.0) and
\* classify(b, b*p, p) are OnTrack, classify(100, 111, 1.0) is OverBudget and
\* classify(100, 89, 1.0) is UnderSpending.
C1_BandClassification ==
    (phase # "start" /\ Abs(raw_budget) > 0) =>
        LET b == Abs(raw_budget)
            s == Abs(raw_spent)
            p == year_progress
        IN  /\ Shown
            /\ card.container = BandStatus(b, s, p)
            /\ (s * 10 * p.den = b * p.num * 9 => card.container = "on_track")
            /\ (s * 10 * p.den = b * p.num * 11 => card.container = "on_track")
            /\ (s * p.den = b * p.num => card.container = "on_track")
            /\ (b = 100 /\ p = One /\ s = 90 => card.container = "on_track")
            /\ (b = 100 /\ p = One /\ s = 111 => card.container = "over_budget")
            /\ (b = 100 /\ p = One /\ s = 89 => card.container = "under_spending")

\* C1's case: classify(100, 110, 1.0), the upper band edge, rendered on track.
C1_Witness ==
    /\ phase = "rendered"
    /\ card.budget = 100 /\ card.spent = 110
    /\ year_progress = One
    /\ card.container = "on_track"

\* C2: with budget = 0 the analysis raises nothing and divides by nothing
\* that is zero; with spent = 0 the category is NoActivity (skipped), with
\* spent > 0 it is UnbudgetedSpending (over-budget column, 100 percent spent,
\* the whole spend shown as overrun, projection noted "no_budget").
C2_ZeroBudget ==
    (phase # "start" /\ raw_budget = 0) =>
        /\ card.state # "raised" /\ card.error = ""
        /\ \A i \in 1..Len(card.divisors) : card.divisors[i].num # 0
        /\ (raw_spent = 0 => card.state = "skipped")
        /\ (raw_spent # 0 =>
                /\ Shown
                /\ card.container = "over_budget"
                /\ card.spent_percent = RatInt(100)
                /\ (card.state = "rendered" =>
                        /\ card.variance =
                               Some([label |-> "overrun", amount |-> RatInt(Abs(raw_spent))])
                        /\ (card.projection # None => card.projection[1].note = "no_budget")))

\* C2's case: a rendered card of a category with spend and no budget.
C2_Witness ==
    /\ phase = "rendered"
    /\ raw_budget = 0 /\ raw_spent = -7
    /\ card.container = "over_budget"
    /\ card.projection # None

\* C9: in month 1 no projection is produced; from month 2 on
\* monthly_average = spent / current_month and yearly_projection =
\* monthly_average * 12 (project(1200, 6) is 200 and 2400); and the card's
\* column is the one the classification chose, whatever the projection says.
C9_Projection ==
    (phase = "rendered") =>
        LET m == MonthOf(now, leap)
            s == Abs(raw_spent)
            pr == card.projection
        IN  /\ (m <= 1 => pr = None)
            /\ (m > 1 =>
                    /\ pr # None
                    /\ pr[1].monthly_avg.num * m = s * pr[1].monthly_avg.den
                    /\ pr[1].yearly_projection.num * m = 12 * s * pr[1].yearly_projection.den)
            /\ (m = 6 /\ s = 1200 =>
                    /\ pr[1].monthly_avg = RatInt(200)
                    /\ pr[1].yearly_projection = RatInt(2400))
            /\ card.container = Classify(raw_budget, raw_spent, year_progress).container

\* C9's case: a projection above the budget on a card that stays on track.
C9_Witness ==
    /\ phase = "rendered"
    /\ card.projection # None
    /\ card.projection[1].note = "over_budget"
    /\ card.container = "on_track"

(***************************************************************************)
(* Claims about process_file (SpecLedger).                                 *)
(***************************************************************************)
Failed(r) == \E i \in 1..Len(r) : r[i].kind = "error"

\* C3: whenever process_file fails, years, categories and spending_data are
\* exactly what they were before the call.
C3_FailedUploadCommitsNothing ==
    [][(event'.type = "upload" /\ Failed(report')) =>
          /\ years' = years
          /\ categories' = categories
          /\ spending_data' = spending_data]_vars

\* The table has the three columns and every month field starts with a year.
WellFormed(table) ==
    /\ table.columns = AllColumns
    /\ \A i \in 1..Len(table.rows) : table.rows[i].month # NaNMonth

\* The rows the claim counts: category neither null nor empty nor excluded.
Kept(row) == row.category \notin {NaN, ""} \cup excluded_categories

RECURSIVE SumOver(_, _)
SumOver(rows, I) ==
    IF I = {} THEN 0
    ELSE LET i == CHOOSE j \in I : TRUE
         IN  (IF rows[i].amount.kind = "num" THEN rows[i].amount.val ELSE 0)
             + SumOver(rows, I \ {i})

ExpectedSpending(table) ==
    LET rows == table.rows
        ys == {SubSeq(rows[i].month, 1, 4) : i \in 1..Len(rows)}
        of(y, c) == {i \in 1..Len(rows) :
                        /\ SubSeq(rows[i].month, 1, 4) = y
                        /\ rows[i].category = c
                        /\ Kept(rows[i])}
    IN  [y \in ys |->
            [c \in {rows[i].category : i \in {j \in 1..Len(rows) :
                        SubSeq(rows[j].month, 1, 4) = y /\ Kept(rows[j])}} |->
                SumOver(rows, of(y, c))]]

\* C8: for a table with the three columns and parseable months process_file
\* succeeds, and spending_data[year][category] is the sum of the amounts of
\* the rows of that year and category; rows whose category is null, empty or
\* excluded add nothing and no category; a missing or non-numeric amount
\* counts as 0.
C8_AggregationAsStated ==
    (event.type = "upload" /\ WellFormed(uploaded_file)) =>
        /\ ~Failed(report)
        /\ spending_data = ExpectedSpending(uploaded_file)
        /\ Range(categories) =
               UNION {DOMAIN spending_data[y] : y \in DOMAIN spending_data}

(***************************************************************************)
(* Claims about the template store (SpecStore).                            *)
(***************************************************************************)
\* The store as the saves and deletes so far leave it.
HistoryStore ==
    [n \in {m \in TemplateNames : saved[m] # None} |-> saved[n][1]]

\* C4: after save(X, M), with no later save or delete of X, load(X) makes
\* the active mapping M, also through a new construction that re-reads the
\* file; a save under a name replaces that name's mapping and leaves every
\* other template as it was, in the object and in the file.
C4_RoundTrip ==
    /\ (phase = "constructed" => templates = HistoryStore)
    /\ (file.valid => Decode(file.entries) = HistoryStore)
    /\ (event.type = "construct" /\ phase = "constructed" =>
            templates = Decode(file.entries))
    /\ (event.type = "load" /\ saved[event.name] # None =>
            /\ current_budgets = saved[event.name][1]
            /\ report = <<Msg("success", "loaded")>>)

\* C4's case: Plan is loaded, saved earlier over a different Default.
C4_Witness ==
    /\ event.type = "load" /\ event.name = "Plan"
    /\ saved["Plan"] # None /\ saved["Default"] # None
    /\ saved["Plan"] # saved["Default"]
    /\ current_budgets = saved["Plan"][1]
    /\ DOMAIN current_budgets = CategoryNames

AbsentNameCall ==
    /\ event'.type \in {"load", "delete"}
    /\ event'.name \notin DOMAIN templates

StoreUntouched ==
    /\ templates' = templates
    /\ file' = file
    /\ current_budgets' = current_budgets

C6_AtomicWrites ==
    /\ (file.exists => file.valid)
    /\ (event.type = "construct" => ~Raised(World))

(***************************************************************************)
(* Claims about the script run (SpecSession).                              *)
(***************************************************************************)
\* C10: a script run of the same session in which the user neither edits a
\* budget nor loads a template, and which ends without an exception, leaves
\* every category's budget as it was, also when the store holds a template
\* named "default" in some letter case.
C10_BudgetsKeptAcrossReruns ==
    [][(/\ phase = "idle"
        /\ event'.type \in {"none", "save", "delete", "upload"}
        /\ \A i \in 1..Len(report') : report'[i].kind # "raised") =>
          \A c \in CategoryNames : Get(current_budgets', c) = Get(current_budgets, c)]_vars

====
